---------------------------- MODULE Spec2Model ----------------------------
(***************************************************************************)
(* Model of src/src/temoainterface/app.py: the run dispatch of TemoaGUI,   *)
(* the worker thread of _execute_temoa_logic, the hand-off of callbacks to *)
(* the event loop, and the two local servers (StaticFileServer,            *)
(* DatasetteServer).                                                       *)
(*                                                                         *)
(* Contexts: the interactive context is the asyncio event loop of the      *)
(* toga application (button handlers, callbacks popped from the loop's     *)
(* ready queue, tasks); each accepted run has one worker thread.           *)
(***************************************************************************)
EXTENDS Integers, Sequences, FiniteSets, TLC

\* ------------------------------------------------------------ bounds
MaxRuns == 2       \* runs dispatched in one behaviour
MaxEmits == 1      \* diagnostics the computation emits per run
MaxTime == 2       \* distinct timestamps (seconds) datetime.now() can show
NumPorts == 2      \* loopback ports the operating system can hand out
MaxCalls == 3      \* calls made by the StaticFileServer client
MaxQueue == 2      \* callbacks waiting in the loop when a thread hands one over

Runs == 1..MaxRuns
Ports == 1..NumPorts
Dirs == 1..MaxTime          \* an output directory is named by its timestamp
None == 0                   \* Python's None for ports, directories, handles

VARIABLES
    toml_doc,        \* self.toml_doc: "None", "toml" or "db" (a configuration
                     \* that names an existing output database)
    btn_run,         \* self.btn_run.enabled
    spinner,         \* self.spinner is running
    log_view,        \* self.log_view.value, as the sequence of appended texts
    current_tab,     \* self.content_container.current_tab
    report_url,      \* self.report_webview.url: [port, file]
    db_url,          \* self.db_webview.url: None or the port of the address
    static_server,   \* StaticFileServer: [server, thread, port, root_dir]
    ds_server,       \* DatasetteServer: [server_task, port, running]
    listeners,       \* operating system: who listens on each port
    ready,           \* the event loop's ready queue (callbacks and task steps)
    timers,          \* tasks suspended in asyncio.sleep
    sys_stdout,      \* sys.stdout
    sys_stderr,      \* sys.stderr
    handlers,        \* handlers of the root logger, in the order added
    worker,          \* per run: the worker thread's position and locals
    fs,              \* per output directory: the result files in it
    now,             \* the last timestamp read from datetime.now()
    runs,            \* number of runs dispatched so far
    seq,             \* number of callbacks handed to the loop so far
    made,            \* number of TCPServer instances created so far
    scheduled,       \* per run: how many times _on_run_complete was handed over
    received,        \* per run: what the interactive context has processed
    client,          \* a client calling StaticFileServer.start and stop
    loop             \* the event loop: "running" or "closed"

vars == <<toml_doc, btn_run, spinner, log_view, current_tab, report_url, db_url,
          static_server, ds_server, listeners, ready, timers, sys_stdout,
          sys_stderr, handlers, worker, fs, now, runs, seq, made, scheduled,
          received, client, loop>>

\* The state owned by the interactive context.
interactive == <<btn_run, spinner, log_view, current_tab, report_url, db_url,
                 static_server, ds_server>>

\* ------------------------------------------------------------ values
OrigStdout == [kind |-> "orig", run |-> 0, prefix |-> "out"]
OrigStderr == [kind |-> "orig", run |-> 0, prefix |-> "err"]
NoStream == [kind |-> "none", run |-> 0, prefix |-> ""]

\* StreamRedirector(self.app, self.log_view, prefix=...)
StreamRedirector(r, prefix) == [kind |-> "redir", run |-> r, prefix |-> prefix]

\* One entry of the ready queue.
\*   k: what it is;  by: the thread that handed it over (0: the loop itself);
\*   src, own: the producing object and the run that created it;
\*   n: its hand-off number;  text, ok, dir, port: its arguments.
Item(k, by, src, own, n, text, ok, dir, port) ==
    [k |-> k, by |-> by, src |-> src, own |-> own, n |-> n, text |-> text,
     ok |-> ok, dir |-> dir, port |-> port]

LogItem(by, src, own, n, text, dir) ==
    Item("log", by, src, own, n, text, FALSE, dir, None)

\* A task step of the loop's own.
Task(k, dir, port) == Item(k, 0, "gui", 0, 0, k, FALSE, dir, port)

\* A piece of text in the log view (log_view.value += ...), with the directory
\* and the port it names.
Line(text, dir, port) == [text |-> text, dir |-> dir, port |-> port]

IdleWorker ==
    [pc |-> "idle", original_stdout |-> NoStream, original_stderr |-> NoStream,
     emitted |-> 0, dir |-> None, success |-> FALSE, final_output_path |-> None]

\* A worker thread that, having handed over its result, stays in the finally
\* block and hands it over again.
DoneWorker_again == [IdleWorker EXCEPT !.pc = "complete"]

\* A worker thread that has returned: its locals are gone.
DoneWorker == [IdleWorker EXCEPT !.pc = "done"]

\* A ready queue that runs the newest callback first.
call_soon_threadsafe_lifo(q, item) == <<item>> \o q

\* loop.call_soon_threadsafe(callback, *args): append to the loop's ready queue.
call_soon_threadsafe(q, item) == Append(q, item)

\* asyncio.create_task(coro): the task's first step is scheduled with call_soon.
create_task(q, item) == Append(q, item)

\* A worker that calls the callback itself: the text is appended to the log
\* view by the calling thread.
HandOff_direct(q, lv, item) ==
    [ready |-> q, log_view |-> Append(lv, Line(item.text, item.dir, None))]

\* self.app.loop.call_soon_threadsafe(self._append_log, text) in the worker:
\* the text goes to the loop's queue; the log view is not touched.
HandOff(q, lv, item) == [ready |-> call_soon_threadsafe(q, item), log_view |-> lv]

\* ------------------------------------------------------------ initial state
Init ==
    /\ toml_doc = "None"
    /\ btn_run = FALSE
    /\ spinner = FALSE
    /\ log_view = <<>>
    /\ current_tab = 0
    /\ report_url = [port |-> None, file |-> "temoaproject.org"]
    /\ db_url = None
    /\ static_server = [server |-> None, thread |-> None, port |-> None, root_dir |-> None]
    /\ ds_server = [server_task |-> FALSE, port |-> None, running |-> FALSE]
    /\ listeners = [p \in Ports |-> "none"]
    /\ ready = <<>>
    /\ timers = {}
    /\ sys_stdout = OrigStdout
    /\ sys_stderr = OrigStderr
    /\ handlers = <<>>
    /\ worker = [r \in Runs |-> IdleWorker]
    /\ fs = [d \in Dirs |-> {}]
    /\ now = 0
    /\ runs = 0
    /\ seq = 0
    /\ made = 0
    /\ scheduled = [r \in Runs |-> 0]
    /\ received = [r \in Runs |-> {}]
    /\ client = [pc |-> "idle", op |-> "none", arg |-> None, ret |-> None,
                 calls |-> 0,
                 before |-> [ss |-> [server |-> None, thread |-> None,
                                     port |-> None, root_dir |-> None],
                             ls |-> [p \in Ports |-> "none"], made |-> 0]]
    /\ loop = "running"

\* ------------------------------------------------------------ servers
\* find_free_port(): the operating system hands out any port nobody listens on;
\* the transient socket is closed before the number is returned.
find_free_port(ls) == {p \in Ports : ls[p] = "none"}

\* A stop that forgets the server object but leaves its socket open.
SS_stop_open(st) ==
    IF st.ss.server # None THEN [st EXCEPT !.ss.server = None] ELSE st

\* StaticFileServer.stop, on st = [ss |-> the server object, ls |-> listeners]:
\* shutdown, server_close (the socket is closed), self.server = None.
SS_stop(st) ==
    IF st.ss.server # None
    THEN [ss |-> [st.ss EXCEPT !.server = None],
          ls |-> [st.ls EXCEPT ![st.ss.port] = "none"]]
    ELSE st

\* A start that takes the shortcut for the last root served, running or not.
SS_serving_root(ss, root_dir) == ss.root_dir = root_dir

\* A start that never takes the "already serving" shortcut.
SS_serving_never(ss, root_dir) == FALSE

\* StaticFileServer.start: "already serving this exact dir".
SS_serving(ss, root_dir) == ss.server # None /\ ss.root_dir = root_dir

\* StaticFileServer.start: self.root_dir = root_dir
SS_root(st, root_dir) == [st EXCEPT !.ss.root_dir = root_dir]

\* StaticFileServer.start: self.port = find_free_port()
SS_port(st, p) == [st EXCEPT !.ss.port = p]

\* StaticFileServer.start: self.server = socketserver.TCPServer((host, port), Handler)
SS_bind(st, id) ==
    [ss |-> [st.ss EXCEPT !.server = id],
     ls |-> [st.ls EXCEPT ![st.ss.port] = "static"]]

\* StaticFileServer.start: self.thread = Thread(target=serve_forever); start()
SS_serve(st) == [st EXCEPT !.ss.thread = st.ss.server]

\* Whether TCPServer can bind the port: nobody listens on it, and no unrelated
\* process took it since it was handed out (env).
SS_can_bind(st, env) == env /\ st.ls[st.ss.port] = "none"

\* StaticFileServer.start as one call. p: the port find_free_port returns;
\* env: whether the port is still free when TCPServer binds; id: the identity of
\* the TCPServer created. The result carries ret: the port of the returned
\* address, or None when the call raised.
SS_start(st, root_dir, p, env, id) ==
    IF SS_serving(st.ss, root_dir)
    THEN [ss |-> st.ss, ls |-> st.ls, ret |-> st.ss.port, id |-> None]
    ELSE LET s1 == SS_root(SS_stop(st), root_dir)
             s2 == SS_port(s1, p)
         IN  IF find_free_port(s1.ls) = {}
             THEN [ss |-> s1.ss, ls |-> s1.ls, ret |-> None, id |-> None]
             ELSE IF ~SS_can_bind(s2, env)
             THEN [ss |-> s2.ss, ls |-> s2.ls, ret |-> None, id |-> None]
             ELSE LET s3 == SS_serve(SS_bind(s2, id))
                  IN  [ss |-> s3.ss, ls |-> s3.ls, ret |-> s3.ss.port, id |-> id]

\* The ports SS_start may be given: those free once the previous listener is
\* stopped (port 1 stands in when the call does not allocate, or none is free).
SS_ports(st, root_dir) ==
    IF SS_serving(st.ss, root_dir) \/ find_free_port(SS_stop(st).ls) = {}
    THEN {1}
    ELSE find_free_port(SS_stop(st).ls)

\* ------------------------------------------------------------ collaborator
AppOnly == UNCHANGED <<client, loop>>

\* select_file, on the dialog's answer. file: the kind of file chosen ("toml":
\* a configuration naming no existing output database; "db": a database, or a
\* configuration naming an existing one); loaded: whether _load_config_logic
\* parsed it (a failure is shown in a dialog and toml_doc keeps its value).
select_file(file, loaded) ==
    /\ toml_doc' = IF loaded THEN file ELSE toml_doc
    /\ btn_run' = TRUE
    /\ AppOnly
    /\ UNCHANGED <<spinner, log_view, current_tab, report_url, db_url,
                   static_server, ds_server, listeners, ready, timers, sys_stdout,
                   sys_stderr, handlers, worker, fs, now, runs, seq, made,
                   scheduled, received>>

\* asyncio.to_thread(self._execute_temoa_logic): a thread of the default
\* executor starts the call for run r.
to_thread(w, r) == [w EXCEPT ![r].pc = "save"]

\* run_model, pressed while the button is enabled (a disabled toga.Button
\* delivers no on_press).
run_model ==
    /\ btn_run
    /\ runs < MaxRuns
    /\ IF toml_doc = "None"
       THEN UNCHANGED <<btn_run, spinner, log_view, current_tab, worker, runs>>
       ELSE /\ btn_run' = FALSE
            /\ spinner' = TRUE
            /\ log_view' = <<Line("--- Starting Run ---", None, None)>>
            /\ current_tab' = 0
            /\ runs' = runs + 1
            /\ worker' = to_thread(worker, runs + 1)
    /\ AppOnly
    /\ UNCHANGED <<toml_doc, report_url, db_url, static_server, ds_server,
                   listeners, ready, timers, sys_stdout, sys_stderr, handlers,
                   fs, now, seq, made, scheduled, received>>

\* ------------------------------------------------------------ worker thread
\* call_soon_threadsafe queues the callback when the loop is running (see
\* handoff_raises for a closed loop). The hand-off waits while the loop's queue
\* is full (a bound of the model).
Room(k) == Len(ready) + k <= MaxQueue

\* One hand-off of a text from thread r: the callback is numbered and queued.
Publish(r, src, own, text, dir) ==
    /\ loop = "running"
    /\ Room(1)
    /\ seq' = seq + 1
    /\ LET h == HandOff(ready, log_view, LogItem(r, src, own, seq + 1, text, dir))
       IN  ready' = h.ready /\ log_view' = h.log_view

\* logging: Logger.callHandlers passes the record to each handler of the root
\* logger in turn; TogaLogHandler.emit hands the formatted text to the loop.
RECURSIVE callHandlers(_, _, _, _)
callHandlers(q, hs, r, n) ==
    IF hs = <<>> THEN q
    ELSE callHandlers(call_soon_threadsafe(q, LogItem(r, "handler", Head(hs), n + 1,
                                                      "record", None)),
                      Tail(hs), r, n + 1)

\* logging.INFO and logging.WARNING
INFO == 20
WARNING == 30

\* The level of a logger once a worker has run its setLevel calls: "temoa" at
\* INFO, "pyomo" and "matplotlib" at WARNING.
getEffectiveLevel(logger) == IF logger = "temoa" THEN INFO ELSE WARNING

\* Logger.handle: a record below the logger's level is discarded; any other is
\* passed to the handlers.
handle(q, hs, r, n, logger, level) ==
    IF level >= getEffectiveLevel(logger) THEN callHandlers(q, hs, r, n) ELSE q

\* str.strip() on the texts written: whitespace strips to nothing.
strip(text) == IF text \in {"", " ", "\n"} THEN "" ELSE text

\* StreamRedirector.write(text) on stream s: a redirector hands prefix + text
\* to the loop unless the text is blank; an original stream writes to the
\* console.
write(q, s, r, n, text) ==
    IF s.kind = "redir" /\ strip(text) # ""
    THEN call_soon_threadsafe(q, LogItem(r, "stream" \o s.prefix, s.run, n + 1,
                                         s.prefix \o text, None))
    ELSE q

At(r, pc) == worker[r].pc = pc
Goto(r, pc) == worker' = [worker EXCEPT ![r].pc = pc]

\* What no step of a worker thread touches.
WorkerOnly == UNCHANGED <<toml_doc, btn_run, spinner, current_tab, report_url,
                          db_url, static_server, ds_server, listeners, timers,
                          runs, made, received, client, loop>>

\* original_stdout = sys.stdout; original_stderr = sys.stderr
\* (two reads of two independent globals, taken as one step: nothing in the
\* program reads or writes the two together).
save_streams(r) ==
    /\ At(r, "save")
    /\ worker' = [worker EXCEPT ![r].original_stdout = sys_stdout,
                                ![r].original_stderr = sys_stderr,
                                ![r].pc = "install"]
    /\ WorkerOnly
    /\ UNCHANGED <<ready, log_view, seq, scheduled, sys_stdout, sys_stderr,
                   handlers, fs, now>>

\* sys.stdout = StreamRedirector(self.app, self.log_view, prefix="")
\* sys.stderr = StreamRedirector(self.app, self.log_view, prefix="[STDERR] ")
\* root_logger.addHandler(gui_handler)
install(r) ==
    /\ At(r, "install")
    /\ sys_stdout' = StreamRedirector(r, "")
    /\ sys_stderr' = StreamRedirector(r, "[STDERR] ")
    /\ handlers' = Append(handlers, r)
    /\ Goto(r, "mkdir")
    /\ WorkerOnly
    /\ UNCHANGED <<ready, log_view, seq, scheduled, fs, now>>

\* An except block that swallows the exception without a word.
except_silent(r) ==
    /\ UNCHANGED <<ready, log_view, seq>>
    /\ worker' = [worker EXCEPT ![r].pc = "restore"]

\* An exception that ends the thread: no finally block runs.
except_fatal(r) ==
    /\ Publish(r, "worker", r, "ERROR: traceback", None)
    /\ worker' = [worker EXCEPT ![r] = DoneWorker]

\* except Exception: the traceback is handed to the loop; control reaches the
\* finally block. (Raising is local to the thread, so the step that raises and
\* the hand-off of the except block are one step.)
except(r) ==
    /\ Publish(r, "worker", r, "ERROR: traceback", None)
    /\ worker' = [worker EXCEPT ![r].pc = "restore"]

\* timestamp = datetime.now()...; output_dir.mkdir(parents=True, exist_ok=True);
\* then the directory's path is handed to the loop. The clock does not go back.
\* made_dir: whether mkdir succeeded (an OSError goes to the except block).
mkdir(r, t, made_dir) ==
    /\ At(r, "mkdir")
    /\ t >= now
    /\ now' = t
    /\ IF made_dir
       THEN /\ worker' = [worker EXCEPT ![r].dir = t, ![r].pc = "write_cfg"]
            /\ Publish(r, "worker", r, "Output directory", t)
       ELSE except(r)
    /\ WorkerOnly
    /\ UNCHANGED <<scheduled, sys_stdout, sys_stderr, handlers, fs>>

\* A worker that goes on to the computation whether the configuration was
\* written or not.
write_config_unchecked(r, written) ==
    /\ At(r, "write_cfg")
    /\ Goto(r, "compute")
    /\ fs' = IF written THEN [fs EXCEPT ![worker[r].dir] = @ \cup {"cfg"}] ELSE fs
    /\ Publish(r, "worker", r, "Configuration saved", None)
    /\ WorkerOnly
    /\ UNCHANGED <<scheduled, sys_stdout, sys_stderr, handlers, now>>

\* with open(run_config_path, "w") as f: f.write(tomlkit.dumps(self.toml_doc));
\* then the file's name is handed to the loop.
\* written: whether the write succeeded.
write_config(r, written) ==
    /\ At(r, "write_cfg")
    /\ IF written
       THEN /\ Goto(r, "compute")
            /\ fs' = [fs EXCEPT ![worker[r].dir] = @ \cup {"cfg"}]
            /\ Publish(r, "worker", r, "Configuration saved", None)
       ELSE except(r) /\ UNCHANGED fs
    /\ WorkerOnly
    /\ UNCHANGED <<scheduled, sys_stdout, sys_stderr, handlers, now>>

\* The computation (TemoaConfig.build_config, TemoaSequencer.start) logs a
\* record, or prints to sys.stdout or sys.stderr. what: "record", an INFO
\* record of the temoa logger; "quiet", an INFO record of the pyomo logger;
\* "stdout", "stderr", a text written to the stream; "newline", the "\n" that
\* print writes after its text.
emit(r, what) ==
    /\ At(r, "compute")
    /\ worker[r].emitted < MaxEmits
    /\ loop = "running"
    /\ worker' = [worker EXCEPT ![r].emitted = @ + 1]
    /\ CASE what = "record" ->
              /\ Room(Len(handlers))
              /\ ready' = handle(ready, handlers, r, seq, "temoa", INFO)
              /\ seq' = seq + Len(handlers)
         [] what = "quiet" ->
              /\ Room(Len(handlers))
              /\ ready' = handle(ready, handlers, r, seq, "pyomo", INFO)
              /\ seq' = seq + (Len(ready') - Len(ready))
         [] what = "newline" ->
              /\ Room(1)
              /\ ready' = write(ready, sys_stdout, r, seq, "\n")
              /\ seq' = seq + (Len(ready') - Len(ready))
         [] what = "stdout" ->
              /\ Room(1)
              /\ ready' = write(ready, sys_stdout, r, seq, "text")
              /\ seq' = IF sys_stdout.kind = "redir" THEN seq + 1 ELSE seq
         [] what = "stderr" ->
              /\ Room(1)
              /\ ready' = write(ready, sys_stderr, r, seq, "text")
              /\ seq' = IF sys_stderr.kind = "redir" THEN seq + 1 ELSE seq
    /\ WorkerOnly
    /\ UNCHANGED <<log_view, scheduled, sys_stdout, sys_stderr, handlers, fs, now>>

\* sequencer.start() returns, having written the files `files` into the output
\* directory: final_output_path = output_dir; success = True
compute_returns(r, files) ==
    /\ At(r, "compute")
    /\ fs' = [fs EXCEPT ![worker[r].dir] = @ \cup files]
    /\ worker' = [worker EXCEPT ![r].final_output_path = worker[r].dir,
                                ![r].success = TRUE, ![r].pc = "restore"]
    /\ WorkerOnly
    /\ UNCHANGED <<ready, log_view, seq, scheduled, sys_stdout, sys_stderr,
                   handlers, now>>

\* build_config or sequencer.start() raises an Exception.
compute_raises(r) ==
    /\ At(r, "compute")
    /\ except(r)
    /\ WorkerOnly
    /\ UNCHANGED <<scheduled, sys_stdout, sys_stderr, handlers, fs, now>>

\* finally: sys.stdout = original_stdout; sys.stderr = original_stderr;
\* root_logger.removeHandler(gui_handler)
restore(r) ==
    /\ At(r, "restore")
    /\ sys_stdout' = worker[r].original_stdout
    /\ sys_stderr' = worker[r].original_stderr
    /\ handlers' = SelectSeq(handlers, LAMBDA h : h # r)
    /\ Goto(r, "complete")
    /\ WorkerOnly
    /\ UNCHANGED <<ready, log_view, seq, scheduled, fs, now>>

\* The callback _on_run_complete(success, final_output_path) of run r.
RunComplete(r, n, success, path) ==
    Item("complete", r, "worker", r, n, "_on_run_complete", success, path, None)

\* finally: call_soon_threadsafe(self._on_run_complete, success, final_output_path);
\* the thread returns.
schedule_complete(r) ==
    /\ At(r, "complete")
    /\ loop = "running"
    /\ Room(1)
    /\ seq' = seq + 1
    /\ LET h == HandOff(ready, log_view,
                        RunComplete(r, seq + 1, worker[r].success,
                                    worker[r].final_output_path))
       IN  ready' = h.ready /\ log_view' = h.log_view
    /\ scheduled' = [scheduled EXCEPT ![r] = @ + 1]
    /\ worker' = [worker EXCEPT ![r] = DoneWorker]
    /\ WorkerOnly
    /\ UNCHANGED <<sys_stdout, sys_stderr, handlers, fs, now>>

\* A worker thread is inside _execute_temoa_logic.
Executing(r) == worker[r].pc \notin {"idle", "done"}

\* ------------------------------------------------------------ event loop
LoopOnly == UNCHANGED <<toml_doc, sys_stdout, sys_stderr, handlers, worker, fs,
                        now, runs, seq, scheduled, client, loop>>

\* TogaLogHandler._append_text, StreamRedirector._append, TemoaGUI._append_log:
\* self.log_view.value += text
append_log ==
    /\ ready # <<>>
    /\ Head(ready).k = "log"
    /\ log_view' = Append(log_view, Line(Head(ready).text, Head(ready).dir, None))
    /\ ready' = Tail(ready)
    /\ received' = IF Head(ready).text = "ERROR: traceback"
                   THEN [received EXCEPT ![Head(ready).by] = @ \cup {"error"}]
                   ELSE received
    /\ LoopOnly
    /\ UNCHANGED <<btn_run, spinner, current_tab, report_url, db_url,
                   static_server, ds_server, listeners, timers, made>>

\* The report file _on_run_complete picks: html before svg.
target_file(files) ==
    IF "html" \in files THEN "html" ELSE IF "svg" \in files THEN "svg" ELSE "none"

\* _on_run_complete(success, output_path), popped from the ready queue.
\* p, env: what find_free_port and the TCPServer bind meet in static_server.start.
on_run_complete(p, env) ==
    /\ ready # <<>>
    /\ Head(ready).k = "complete"
    /\ spinner' = FALSE
    /\ btn_run' = TRUE
    /\ LET success == Head(ready).ok
           output_path == Head(ready).dir
           st == [ss |-> static_server, ls |-> listeners]
           res == SS_start(st, output_path, p, env, made + 1)
           target == target_file(fs[output_path])
           lv1 == Append(log_view, Line("Optimization Complete", output_path, None))
           lv2 == IF res.ret = None
                  THEN Append(lv1, Line("Error starting report server", None, None))
                  ELSE IF target # "none"
                  THEN Append(lv1, Line("Loading report at", output_path, res.ret))
                  ELSE Append(lv1, Line("No visual report file found", None, None))
       IN  IF success /\ output_path # None
           THEN /\ p \in SS_ports(st, output_path)
                /\ received' = [received EXCEPT ![Head(ready).by] = @ \cup {"ok"}]
                /\ static_server' = res.ss
                /\ listeners' = res.ls
                /\ made' = IF res.id # None THEN made + 1 ELSE made
                /\ IF res.ret # None /\ target # "none"
                   THEN /\ report_url' = [port |-> res.ret, file |-> target]
                        /\ current_tab' = 1
                   ELSE UNCHANGED <<report_url, current_tab>>
                /\ IF "sqlite" \in fs[output_path]
                   THEN /\ log_view' = Append(lv2, Line("Launching Database Inspector",
                                                        output_path, None))
                        /\ ready' = create_task(Tail(ready), Task("launch", output_path, None))
                   ELSE /\ log_view' = lv2
                        /\ ready' = IF toml_doc = "db"
                                    THEN create_task(Tail(ready),
                                                     Task("launch", output_path, None))
                                    ELSE Tail(ready)
           ELSE /\ p = 1 /\ env
                /\ received' = [received EXCEPT ![Head(ready).by] = @ \cup {"failed"}]
                /\ log_view' = Append(log_view, Line("Optimization Failed", None, None))
                /\ ready' = Tail(ready)
                /\ UNCHANGED <<static_server, listeners, made, report_url, current_tab>>
    /\ LoopOnly
    /\ UNCHANGED <<db_url, ds_server, timers>>

\* A start that does not look at self.running.
DS_running_never(ds) == FALSE

\* DatasetteServer.start: if self.running
DS_running(ds) == ds.running

\* _launch_datasette up to its first suspension: ds_server.start(db_path) runs
\* to `await asyncio.sleep(0.5)`, or returns at once when already running, or
\* raises. p: the port find_free_port returns; built: whether Datasette and the
\* uvicorn server were constructed.
launch_datasette(p, built) ==
    /\ ready # <<>>
    /\ Head(ready).k = "launch"
    /\ IF DS_running(ds_server)
       THEN /\ p = 1 /\ built
            /\ db_url' = ds_server.port
            /\ log_view' = Append(log_view, Line("Database Inspector ready at",
                                                 Head(ready).dir, ds_server.port))
            /\ ready' = Tail(ready)
            /\ UNCHANGED <<ds_server, timers>>
       ELSE IF find_free_port(listeners) = {}
       THEN /\ p = 1 /\ built
            /\ log_view' = Append(log_view, Line("Failed to start Datasette", None, None))
            /\ ready' = Tail(ready)
            /\ UNCHANGED <<ds_server, timers, db_url>>
       ELSE /\ p \in find_free_port(listeners)
            /\ IF built
               THEN /\ ds_server' = [server_task |-> TRUE, port |-> p, running |-> TRUE]
                    /\ ready' = create_task(Tail(ready), Task("serve", None, p))
                    /\ timers' = timers \cup {Task("resume", Head(ready).dir, p)}
                    /\ UNCHANGED log_view
               ELSE /\ ds_server' = [ds_server EXCEPT !.port = p, !.running = TRUE]
                    /\ log_view' = Append(log_view,
                                          Line("Failed to start Datasette", None, None))
                    /\ ready' = Tail(ready)
                    /\ UNCHANGED timers
            /\ UNCHANGED db_url
    /\ LoopOnly
    /\ UNCHANGED <<btn_run, spinner, current_tab, report_url, static_server,
                   listeners, made, received>>

\* server.serve(), the task created by DatasetteServer.start: uvicorn binds the
\* port if nobody listens on it, and gives up otherwise.
serve ==
    /\ ready # <<>>
    /\ Head(ready).k = "serve"
    /\ listeners' = IF listeners[Head(ready).port] = "none"
                    THEN [listeners EXCEPT ![Head(ready).port] = "datasette"]
                    ELSE listeners
    /\ ready' = Tail(ready)
    /\ LoopOnly
    /\ UNCHANGED <<btn_run, spinner, log_view, current_tab, report_url, db_url,
                   static_server, ds_server, timers, made, received>>

\* asyncio.sleep(0.5) is over: the suspended task is ready again.
wake ==
    \E t \in timers :
        /\ timers' = timers \ {t}
        /\ ready' = Append(ready, t)
        /\ LoopOnly
        /\ UNCHANGED <<btn_run, spinner, log_view, current_tab, report_url, db_url,
                       static_server, ds_server, listeners, made, received>>

\* _launch_datasette after the sleep: ds_server.start returns the address;
\* self.db_webview.url = url; the address is written to the log view.
datasette_ready ==
    /\ ready # <<>>
    /\ Head(ready).k = "resume"
    /\ db_url' = Head(ready).port
    /\ log_view' = Append(log_view, Line("Database Inspector ready at",
                                         Head(ready).dir, Head(ready).port))
    /\ ready' = Tail(ready)
    /\ LoopOnly
    /\ UNCHANGED <<btn_run, spinner, current_tab, report_url, static_server,
                   ds_server, listeners, timers, made, received>>

\* ------------------------------------------------------------ specifications
\* The collaborator: the user picks an input file of one of the kinds `docs`
\* (and it loads or not), or presses RUN MODEL.
Collaborator(docs) ==
    \/ \E file \in docs, loaded \in BOOLEAN : select_file(file, loaded)
    \/ run_model

\* The worker thread of run r up to the computation. ticks: by how many
\* seconds the clock may have advanced since it was last read.
Setup(r, ticks) ==
    \/ save_streams(r)
    \/ install(r)
    \/ \E t \in {now + d : d \in ticks} \cap Dirs, made_dir \in BOOLEAN :
           mkdir(r, t, made_dir)
    \/ \E written \in BOOLEAN : write_config(r, written)

\* The computation's diagnostics.
Diagnostics(r, kinds) == \E what \in kinds : emit(r, what)

\* The computation ends, leaving one of the file sets `outputs`, or raising;
\* then the finally block.
Finish(r, outputs) ==
    \/ \E files \in outputs : compute_returns(r, files)
    \/ compute_raises(r)
    \/ restore(r)
    \/ schedule_complete(r)

\* The event loop runs the callback at the head of its queue.
Loop ==
    \/ append_log
    \/ \E p \in Ports, env \in BOOLEAN : on_run_complete(p, env)

\* The tasks of the dataset server.
Datasette ==
    \/ \E p \in Ports, built \in BOOLEAN : launch_datasette(p, built)
    \/ serve
    \/ wake
    \/ datasette_ready

\* The application: runs, each in a second of its own, and the servers they
\* provision. The computation's diagnostics are left to SpecRelay.
Next ==
    \/ Collaborator({"toml"})
    \/ \E r \in Runs : Setup(r, {1}) \/ Finish(r, SUBSET {"html", "sqlite"})
    \/ Loop
    \/ Datasette

Spec == Init /\ [][Next]_vars

\* The log relay: runs whose computation emits diagnostics. The computation
\* leaves no file and the configuration names no database, so that no dataset
\* server is launched.
NextRelay ==
    \/ Collaborator({"toml"})
    \/ \E r \in Runs : \/ Setup(r, {1})
                        \/ Diagnostics(r, {"record", "stdout", "stderr"})
                        \/ Finish(r, {{}})
    \/ Loop

SpecRelay == Init /\ [][NextRelay]_vars

\* ------------------------------------------------------------ StaticFileServer alone
\* A client of StaticFileServer calls start and stop, one call at a time; the
\* steps of start are taken one by one.
ClientOnly == UNCHANGED <<toml_doc, btn_run, spinner, log_view, current_tab,
                          report_url, db_url, ds_server, ready, timers,
                          sys_stdout, sys_stderr, handlers, worker, fs, now, runs,
                          seq, scheduled, received, loop>>

Snapshot == [ss |-> static_server, ls |-> listeners, made |-> made]

\* start(root_dir) is called: the check for "already serving this exact dir".
call_start(root_dir) ==
    /\ client.pc = "idle"
    /\ client.calls < MaxCalls
    /\ client' = [pc |-> IF SS_serving(static_server, root_dir) THEN "idle" ELSE "stop",
                  op |-> "start", arg |-> root_dir,
                  ret |-> IF SS_serving(static_server, root_dir)
                          THEN static_server.port ELSE None,
                  calls |-> client.calls + 1, before |-> Snapshot]
    /\ ClientOnly
    /\ UNCHANGED <<static_server, listeners, made>>

\* start: if self.server: self.stop(); self.root_dir = root_dir
start_stop ==
    /\ client.pc = "stop"
    /\ LET st == SS_root(SS_stop([ss |-> static_server, ls |-> listeners]), client.arg)
       IN  static_server' = st.ss /\ listeners' = st.ls
    /\ client' = [client EXCEPT !.pc = "port"]
    /\ ClientOnly
    /\ UNCHANGED made

\* start: self.port = find_free_port()
start_port(p) ==
    /\ client.pc = "port"
    /\ IF find_free_port(listeners) = {}
       THEN /\ p = 1
            /\ client' = [client EXCEPT !.pc = "idle"]
            /\ UNCHANGED static_server
       ELSE /\ p \in find_free_port(listeners)
            /\ static_server' = SS_port([ss |-> static_server, ls |-> listeners], p).ss
            /\ client' = [client EXCEPT !.pc = "bind"]
    /\ ClientOnly
    /\ UNCHANGED <<listeners, made>>

\* start: the TCPServer is created and bound, the thread started, and the
\* address returned; or the bind raises.
start_bind(env) ==
    /\ client.pc = "bind"
    /\ LET st == [ss |-> static_server, ls |-> listeners]
           s3 == SS_serve(SS_bind(st, made + 1))
       IN  IF SS_can_bind(st, env)
           THEN /\ static_server' = s3.ss
                /\ listeners' = s3.ls
                /\ made' = made + 1
                /\ client' = [client EXCEPT !.pc = "idle", !.ret = s3.ss.port]
           ELSE /\ client' = [client EXCEPT !.pc = "idle"]
                /\ UNCHANGED <<static_server, listeners, made>>
    /\ ClientOnly

\* stop() is called.
call_stop ==
    /\ client.pc = "idle"
    /\ client.calls < MaxCalls
    /\ LET st == SS_stop([ss |-> static_server, ls |-> listeners])
       IN  static_server' = st.ss /\ listeners' = st.ls
    /\ client' = [pc |-> "idle", op |-> "stop", arg |-> None, ret |-> None,
                  calls |-> client.calls + 1, before |-> Snapshot]
    /\ ClientOnly
    /\ UNCHANGED made

NextStatic ==
    \/ \E root_dir \in Dirs : call_start(root_dir)
    \/ start_stop
    \/ \E p \in Ports : start_port(p)
    \/ \E env \in BOOLEAN : start_bind(env)
    \/ call_stop

SpecStatic == Init /\ [][NextStatic]_vars

\* ------------------------------------------------------------ progress
\* Runs under a fair scheduler: every worker thread keeps running (and the
\* computation ends, one way or the other), and the event loop keeps running
\* the callbacks and tasks that are ready.
NextLive ==
    \/ Collaborator({"toml"})
    \/ \E r \in Runs : Setup(r, {1}) \/ Finish(r, {{"html", "sqlite"}})
    \/ Loop
    \/ Datasette

SpecLive ==
    /\ Init
    /\ [][NextLive]_vars
    /\ \A r \in Runs : WF_vars(Setup(r, {1}) \/ Finish(r, {{"html", "sqlite"}}))
    /\ WF_vars(Loop \/ Datasette)

\* ------------------------------------------------------------ diagnostic sink
\* Runs whose computation emits every kind of diagnostic, those the sink
\* forwards and those it drops.
NextSink ==
    \/ Collaborator({"toml"})
    \/ \E r \in Runs : \/ Setup(r, {1})
                       \/ Diagnostics(r, {"record", "quiet", "stdout", "stderr", "newline"})
                       \/ Finish(r, {{}})
    \/ Loop

SpecSink == Init /\ [][NextSink]_vars

\* ------------------------------------------------------------ shutdown
\* The application quits while worker threads are still running: the event loop
\* is closed, and what is left in its queue is never run.
close ==
    /\ loop = "running"
    /\ loop' = "closed"
    /\ UNCHANGED <<toml_doc, btn_run, spinner, log_view, current_tab, report_url,
                   db_url, static_server, ds_server, listeners, ready, timers,
                   sys_stdout, sys_stderr, handlers, worker, fs, now, runs, seq,
                   made, scheduled, received, client>>

\* A hand-off inside the try block when the loop is closed: call_soon_threadsafe
\* raises RuntimeError in the calling thread (the worker's own hand-off, or
\* TogaLogHandler.emit or StreamRedirector.write called by the computation). The
\* except block catches it, its own hand-off raises again, and control reaches
\* the finally block. t: the timestamp read; done: whether the step before the
\* hand-off (mkdir, the configuration write) had succeeded.
handoff_raises(r, t, done) ==
    /\ loop = "closed"
    /\ worker[r].pc \in {"mkdir", "write_cfg", "compute"}
    /\ t >= now
    /\ now' = IF At(r, "mkdir") THEN t ELSE now
    /\ fs' = IF At(r, "write_cfg") /\ done
             THEN [fs EXCEPT ![worker[r].dir] = @ \cup {"cfg"}]
             ELSE fs
    /\ worker' = [worker EXCEPT ![r].pc = "restore",
                                ![r].dir = IF At(r, "mkdir") /\ done THEN t ELSE @]
    /\ WorkerOnly
    /\ UNCHANGED <<ready, log_view, seq, scheduled, sys_stdout, sys_stderr, handlers>>

\* The hand-off of _on_run_complete in the finally block when the loop is
\* closed: RuntimeError leaves _execute_temoa_logic and ends the thread.
complete_raises(r) ==
    /\ loop = "closed"
    /\ At(r, "complete")
    /\ worker' = [worker EXCEPT ![r] = [IdleWorker EXCEPT !.pc = "raised"]]
    /\ WorkerOnly
    /\ UNCHANGED <<ready, log_view, seq, scheduled, sys_stdout, sys_stderr,
                   handlers, fs, now>>

NextShutdown ==
    \/ loop = "running" /\ Collaborator({"toml"})
    \/ \E r \in Runs : Setup(r, {1}) \/ Finish(r, {{}})
    \/ loop = "running" /\ Loop
    \/ close
    \/ \E r \in Runs, t \in {now, now + 1} \cap Dirs, done \in BOOLEAN :
           handoff_raises(r, t, done)
    \/ \E r \in Runs : complete_raises(r)

SpecShutdown == Init /\ [][NextShutdown]_vars

\* ------------------------------------------------------------ claims
\* C1: at most one run is in flight at any time: while a worker thread is executing a
\* run, no second worker thread is executing another.
C1_AtMostOneRun == Cardinality({r \in Runs : Executing(r)}) <= 1

\* C2: for every dispatched run exactly one run-complete result is handed to the
\* interactive context, behind every log event the run's worker handed over:
\* a worker hands its result over once, when it returns; nothing a worker handed
\* over waits in the loop's queue behind its result; and once the interactive
\* context has processed a run's result, that worker has returned and nothing it
\* handed over is still waiting.
C2_OneResultAfterLogs ==
    /\ \A r \in Runs : /\ scheduled[r] <= 1
                       /\ (worker[r].pc = "done") <=> (scheduled[r] = 1)
    /\ \A i, j \in DOMAIN ready :
           (i < j /\ ready[i].k = "complete") => ready[j].by # ready[i].by
    /\ \A r \in Runs :
           received[r] \cap {"ok", "failed"} # {} =>
               /\ worker[r].pc = "done"
               /\ \A i \in DOMAIN ready : ready[i].by # r

\* A run's result was processed after a log event of its worker was appended.
C2_Witness ==
    \E i, j \in DOMAIN log_view :
        /\ i < j
        /\ log_view[i].text = "Configuration saved"
        /\ log_view[j].text = "Optimization Complete"

\* Two queued log events come from the same producer.
SameProducer(a, b) == a.k = "log" /\ b.k = "log" /\ a.src = b.src /\ a.own = b.own

\* C3: log events of one producer (a log handler, a stream redirector, the worker's
\* own messages) reach the log view in the order they were handed over, also when
\* several threads produce at once: whenever the loop takes a log event from its
\* queue, the event's text is appended to the end of the log view, and every event
\* of the same producer still waiting was handed over later.
C3_ProducerFifo ==
    [][ (ready # <<>> /\ Head(ready).k = "log" /\ ready' = Tail(ready)) =>
            /\ log_view' = Append(log_view, Line(Head(ready).text, Head(ready).dir, None))
            /\ \A j \in 2..Len(ready) :
                   SameProducer(Head(ready), ready[j]) => ready[j].n > Head(ready).n
      ]_vars

\* Two events of one producer, handed over by two different threads, are waiting.
C3_Witness ==
    \E i, j \in DOMAIN ready :
        i < j /\ SameProducer(ready[i], ready[j]) /\ ready[i].by # ready[j].by

\* The client's last call is a start for the root the server was serving.
SameRootStart ==
    /\ client.op = "start"
    /\ client.before.ss.server # None
    /\ client.before.ss.root_dir = client.arg

\* C4: StaticFileServer.start(root) while already serving that root returns the same
\* address and has no side effect: the call returns at once, with the port the
\* server had, and the server object, the listening sockets and the number of
\* TCPServers created are what they were before the call.
C4_SameRootIdempotent ==
    SameRootStart =>
        /\ client.pc = "idle"
        /\ client.ret = client.before.ss.port
        /\ static_server = client.before.ss
        /\ listeners = client.before.ls
        /\ made = client.before.made

C4_Witness == SameRootStart /\ client.calls >= 2 /\ client.ret # None

\* The client's last call is a start for another root than the one being served.
SwitchingStart ==
    /\ client.op = "start"
    /\ client.before.ss.server # None
    /\ client.before.ss.root_dir # client.arg

\* C5, corrected: start(rootA) then start(rootB) with rootA # rootB stops the first
\* listener before the second is bound: while the second call allocates and binds
\* its port no static listener exists, and when it returns an address, one static
\* listener exists, at the returned port, held by a new TCPServer serving rootB.
\* (The returned port is any port free after the stop: it may be the first one.)
C5_StoppedBeforeBound ==
    SwitchingStart =>
        /\ client.pc \in {"port", "bind"} => \A p \in Ports : listeners[p] # "static"
        /\ (client.pc = "idle" /\ client.ret # None) =>
               /\ {p \in Ports : listeners[p] = "static"} = {client.ret}
               /\ static_server.server # client.before.ss.server
               /\ static_server.root_dir = client.arg
               /\ static_server.port = client.ret

\* The second start returned the port the first listener had.
C5_Witness ==
    /\ SwitchingStart
    /\ client.pc = "idle"
    /\ client.ret # None
    /\ client.ret = client.before.ss.port

\* C5 as stated: start(rootA) then start(rootB) with rootA # rootB yields a
\* different port, and the first listener was stopped before the second was bound.
C5_DifferentPort ==
    SwitchingStart =>
        /\ client.pc \in {"port", "bind"} => \A p \in Ports : listeners[p] # "static"
        /\ (client.pc = "idle" /\ client.ret # None) => client.ret # client.before.ss.port

\* C6: when a run fails, the worker's finally block leaves no redirection behind:
\* once a failed run's worker has restored the streams and removed its handler,
\* and no other worker is executing, sys.stdout and sys.stderr are the original
\* streams and the root logger has no GUI handler, as before a first run.
C6_NoLeakAfterFailure ==
    \A r \in Runs :
        (/\ worker[r].pc = "complete"
         /\ ~worker[r].success
         /\ \A o \in Runs \ {r} : ~Executing(o)) =>
            /\ sys_stdout = OrigStdout
            /\ sys_stderr = OrigStderr
            /\ handlers = <<>>

\* C7: for a successful run that wrote a report file and a dataset file, the log
\* view shows the run-complete line, then the report address, then the dataset
\* server's address, and the two addresses have different ports.
C7_CompleteReportDataset ==
    \A i, j \in DOMAIN log_view :
        (/\ log_view[i].text = "Loading report at"
         /\ log_view[j].text = "Database Inspector ready at"
         /\ log_view[i].dir = log_view[j].dir) =>
            /\ i < j
            /\ \E k \in 1..(i - 1) : /\ log_view[k].text = "Optimization Complete"
                                     /\ log_view[k].dir = log_view[i].dir
            /\ log_view[i].port # log_view[j].port

\* C8: when a run fails, the interactive context receives the log event with the
\* traceback before the result with success = false, and processing that result
\* provisions nothing: the static server, the dataset server, the listening
\* sockets, the pending tasks and both web views are left as they were.
C8_FailedRun ==
    /\ [](\A r \in Runs : "failed" \in received[r] => "error" \in received[r])
    /\ [][ (/\ ready # <<>>
            /\ Head(ready).k = "complete"
            /\ ~Head(ready).ok
            /\ received' # received) =>
               /\ ready' = Tail(ready)
               /\ UNCHANGED <<static_server, ds_server, listeners, timers,
                              report_url, db_url, current_tab, made>>
       ]_vars

\* A failed run's result was processed while an earlier run's server is up.
C8_Witness ==
    \E r \in Runs : "failed" \in received[r] /\ static_server.server # None

\* C9: whenever a run is accepted, the busy indicator is eventually stopped and
\* the trigger control enabled again.
C9_Released ==
    \A r \in Runs : (worker[r].pc = "save") ~> (~spinner /\ btn_run)

\* A failed run and a successful run have both been released.
C9_Witness ==
    /\ \E r \in Runs : "failed" \in received[r]
    /\ \E r \in Runs : "ok" \in received[r]
    /\ ~spinner /\ btn_run

\* C10: only the interactive context changes interactive state: a step of a worker
\* thread (or of a log handler or stream redirector running in it) leaves the
\* widgets, the web views and both server objects as they are, and does nothing
\* to the loop's queue but append callbacks to it.
C10_HandOffOnly ==
    [][ (\E r \in Runs : Executing(r) /\ worker'[r] # worker[r]) =>
            /\ interactive' = interactive
            /\ UNCHANGED <<listeners, timers>>
            /\ Len(ready') >= Len(ready)
            /\ SubSeq(ready', 1, Len(ready)) = ready
      ]_vars

\* A log handler running in a worker thread has queued a callback while the
\* interactive state shows the run in progress.
C10_Witness ==
    /\ ready # <<>>
    /\ ready[Len(ready)].src = "handler"
    /\ Executing(ready[Len(ready)].by)
    /\ spinner

\* The loop is about to run the callback or task step of kind k.
Running(k) == ready # <<>> /\ Head(ready).k = k

\* C11: on the success path a server-provisioning failure is reported as log text and
\* stops nothing else: when the static server cannot be started, the error line is
\* appended, the dataset server is still launched for a dataset file, and the
\* button is enabled; when _launch_datasette ends, it has either reported a
\* failure or announced an address at which the dataset server listens, and
\* the report address and the button are as they were.
C11_Isolated ==
    [][ /\ (Running("complete") /\ Head(ready).ok /\ received' # received) =>
               /\ btn_run' /\ ~spinner'
               /\ static_server'.server = None =>
                      /\ \E i \in (Len(log_view) + 1)..Len(log_view') :
                             log_view'[i].text = "Error starting report server"
                      /\ "sqlite" \in fs[Head(ready).dir] =>
                             ready'[Len(ready')].k = "launch"
        /\ ((Running("launch") \/ Running("resume")) /\ ready' = Tail(ready)) =>
               /\ report_url' = report_url
               /\ btn_run' = btn_run
               /\ LET last == log_view'[Len(log_view')]
                  IN  \/ last.text = "Failed to start Datasette"
                      \/ /\ last.text = "Database Inspector ready at"
                         /\ listeners[last.port] = "datasette"
      ]_vars

\* C12: a hand-off never raises to the producer, not even when the event loop has
\* shut down: no worker thread is ended by an exception from a hand-off.
C12_PublishNeverRaises == \A r \in Runs : worker[r].pc # "raised"

\* C13: the static file server and the dataset server never hold the same port:
\* whenever the static server has a listener and the dataset server has been
\* started (its port allocated and its server task created, bound or not yet),
\* their ports differ.
C13_DistinctPorts ==
    (static_server.server # None /\ ds_server.running /\ ds_server.server_task) =>
        static_server.port # ds_server.port

\* The step is the event loop running the head of its queue: the head is gone,
\* what the step queued is behind the rest, and no thread or timer moved.
LoopStep ==
    /\ ready # <<>>
    /\ ready' # ready
    /\ Len(ready') >= Len(ready) - 1
    /\ SubSeq(ready', 1, Len(ready) - 1) = Tail(ready)
    /\ worker' = worker
    /\ timers \subseteq timers'

\* C14: DatasetteServer.start on a running instance returns its address at once and
\* changes nothing: the task that called it ends in the same step with the
\* instance's port as address, no port is allocated, no server task is created
\* and nothing is suspended, also while the first call is still in its settling
\* wait. A server task is created only by a start that found the instance not
\* running, and the instance never stops running, so there is at most one.
C14_StartOnce ==
    [][ /\ (Running("launch") /\ ds_server.running /\ LoopStep) =>
               /\ ready' = Tail(ready)
               /\ db_url' = ds_server.port
               /\ log_view' = Append(log_view, Line("Database Inspector ready at",
                                                    Head(ready).dir, ds_server.port))
               /\ UNCHANGED <<ds_server, timers, listeners>>
        /\ (\E i \in DOMAIN ready' : ready'[i].k = "serve" /\ i > Len(ready) - 1) =>
               \/ \E j \in DOMAIN ready : ready[j].k = "serve"
               \/ ~ds_server.running /\ ~ds_server.server_task
        /\ ds_server.running => ds_server'.running
        /\ ds_server.server_task => ds_server'.server_task
        /\ (ds_server.running /\ ds_server.port # None) =>
               ds_server'.port = ds_server.port
      ]_vars

\* A second start has returned the address while the first call is still in
\* its settling wait.
C14_Witness ==
    /\ ds_server.running
    /\ ds_server.server_task
    /\ timers # {}
    /\ db_url = ds_server.port

\* C15: StaticFileServer.stop does nothing when no listener is running; when one is
\* running, stop has closed its socket and dropped the server when it returns,
\* and changes nothing else. A stopped server is not restarted in place: a start
\* that finds no listener, also one for the root served before, goes through a
\* new port allocation, and when it returns an address a new TCPServer listens
\* there.
C15_StopAndRestart ==
    /\ client.op = "stop" =>
           /\ client.pc = "idle"
           /\ static_server.server = None
           /\ \A p \in Ports : listeners[p] # "static"
           /\ made = client.before.made
           /\ IF client.before.ss.server = None
              THEN static_server = client.before.ss /\ listeners = client.before.ls
              ELSE /\ static_server = [client.before.ss EXCEPT !.server = None]
                   /\ listeners = [client.before.ls EXCEPT
                                       ![client.before.ss.port] = "none"]
    /\ (client.op = "start" /\ client.before.ss.server = None
                            /\ client.pc = "idle" /\ client.ret # None) =>
           /\ made = client.before.made + 1
           /\ static_server.server = made
           /\ static_server.port = client.ret
           /\ listeners[client.ret] = "static"
           /\ client.before.ls[client.ret] = "none"

\* A start for the root served before the stop has returned an address.
C15_Witness ==
    /\ client.op = "start"
    /\ client.pc = "idle"
    /\ client.ret # None
    /\ client.before.ss.server = None
    /\ client.before.ss.root_dir = client.arg

\* The last callback in the queue after the step is a new one, handed over by
\* thread r, with this text.
HandedOver(r, text) ==
    /\ Len(ready') = Len(ready) + 1
    /\ ready'[Len(ready')].k = "log"
    /\ ready'[Len(ready')].by = r
    /\ ready'[Len(ready')].text = text

\* C16: a worker creates the output directory and hands over its path, then writes
\* run_config.toml there and hands over its name, and only then runs the
\* computation: a worker about to write the configuration has its directory; a
\* worker in the computation, or past it with success, has its directory with
\* the configuration file in it; and the worker moves to the configuration
\* write only from the directory step, handing over the path, and to the
\* computation only from the configuration write, handing over the name.
C16_WorkerOrder ==
    /\ [](\A r \in Runs :
            /\ worker[r].pc = "write_cfg" => worker[r].dir # None
            /\ (worker[r].pc = "compute" \/ worker[r].success) =>
                   /\ worker[r].dir # None
                   /\ "cfg" \in fs[worker[r].dir])
    /\ [][ \A r \in Runs :
             /\ (worker'[r].pc = "write_cfg" /\ worker[r].pc # "write_cfg") =>
                    /\ worker[r].pc = "mkdir"
                    /\ HandedOver(r, "Output directory")
                    /\ ready'[Len(ready')].dir = worker'[r].dir
             /\ (worker'[r].pc = "compute" /\ worker[r].pc # "compute") =>
                    /\ worker[r].pc = "write_cfg"
                    /\ HandedOver(r, "Configuration saved")
             /\ (worker'[r].success /\ ~worker[r].success) => worker[r].pc = "compute"
       ]_vars

\* Two workers are in the computation at once, each with its own directory.
C16_Witness ==
    \E r, o \in Runs :
        /\ r # o
        /\ worker[r].pc = "compute"
        /\ worker[o].pc = "compute"
        /\ worker[r].dir # worker[o].dir

\* C17: when a successful run's result is processed, servers are provisioned by the
\* files found: without a report file (html or svg) the static server is left as
\* it is; without a dataset file no dataset launch is queued; and with neither,
\* nothing is provisioned and the log says that no report was found.
C17_ByArtifacts ==
    [][ (Running("complete") /\ Head(ready).ok /\ received' # received) =>
            LET files == fs[Head(ready).dir]
            IN  /\ target_file(files) = "none" =>
                       UNCHANGED <<static_server, listeners, made>>
                /\ "sqlite" \notin files => ready' = Tail(ready)
                /\ (target_file(files) = "none" /\ "sqlite" \notin files) =>
                       \E i \in (Len(log_view) + 1)..Len(log_view') :
                           log_view'[i].text = "No visual report file found"
      ]_vars

\* C18: while a run's sink is installed, every INFO record of any logger and every
\* text written to sys.stdout or sys.stderr becomes exactly one log event, tagged
\* "[STDERR] " when it comes from sys.stderr and not otherwise: each diagnostic
\* the computation emits adds exactly one callback to the loop's queue, handed
\* over by the emitting thread, and its text starts with "[STDERR] " exactly
\* when it comes from the stderr redirector.
C18_EveryDiagnosticOnce ==
    [][ \A r \in Runs :
            worker'[r].emitted = worker[r].emitted + 1 =>
                /\ Len(ready') = Len(ready) + 1
                /\ ready'[Len(ready')].k = "log"
                /\ ready'[Len(ready')].by = r
                /\ (ready'[Len(ready')].src = "stream[STDERR] ") <=>
                       (ready'[Len(ready')].text = "[STDERR] text")
      ]_vars

\* C19: a DatasetteServer marked running has a server task and a port: a start that
\* fails after allocating the port does not leave the instance marked running.
C19_RunningHasTask ==
    ds_server.running => (ds_server.server_task /\ ds_server.port # None)

\* C20: whenever no worker thread is executing _execute_temoa_logic, sys.stdout and
\* sys.stderr are the streams they were before the first run and the root logger
\* has no GUI handler, whatever runs came before and however they overlapped.
C20_CleanWhenIdle ==
    (\A r \in Runs : ~Executing(r)) =>
        /\ sys_stdout = OrigStdout
        /\ sys_stderr = OrigStderr
        /\ handlers = <<>>

=============================================================================
